---- MODULE Spec2Model ----
(***************************************************************************)
(* AtomicYamlWriter (prototypes/m0-yaml): a versioned document persisted   *)
(* by lock file + temp file + rename.  The model keeps the directory       *)
(* entries (name -> inode), the contents of the inodes, and every thread's *)
(* position inside read() and write(); each system call that other threads *)
(* can observe is one step.                                                *)
(***************************************************************************)
EXTENDS Integers, Sequences, FiniteSets, TLC

\* ------------------------------------------------------------------ bounds
NumProcs == 2
MaxRev == 2
MaxWrites == 5
MaxFaults == 1
NumCallers == 3
MaxCrashes == 2
NumTasks == 3
MaxDepth == 2
MaxPaths == 2
NumDescendants == 2

Procs == 1..NumProcs
\* target + temp + one open descriptor per thread can each name an inode
DataInodes == 1..(NumProcs + 2)
\* the lock path + one open descriptor per thread
LockInodes == 1..(NumProcs + 1)

VARIABLES
    targetIno,  \* inode the path `P` names, 0 when it does not exist
    tempIno,    \* inode `P.with_extension("tmp")` names, 0 when absent
    lockIno,    \* lock inode `P.with_extension("lock")` names, 0 when absent
    files,      \* DataInodes -> the bytes of the inode
    pc,         \* Procs -> the statement the thread is at
    op,         \* Procs -> "none" | "read" | "write": the call in progress
    data,       \* Procs -> write's `data` argument
    expected_rev, \* Procs -> write's `expected_rev` argument
    fd,         \* Procs -> data inode the thread holds open (file / temp_file), 0 none
    lock_file,  \* Procs -> lock inode the thread holds open, 0 none
    locked,     \* Procs -> the thread's open lock descriptor holds the flock
    result,     \* Procs -> what the thread's last call returned
    touched,    \* Procs -> the call in progress (or just returned) has changed
                \*          the bytes the target path names
    faults,     \* injected I/O errors so far
    tpc,        \* test_rapid_writes: position of the test body
    ti,         \* test_rapid_writes: loop variable `i`
    trev,       \* test_rapid_writes: local `rev`
    tn,         \* test_rapid_writes: number of iterations of the run
    tdata,      \* test_basic_write: the test's `data`
    hpc,        \* test_concurrent_writes: Procs -> position of the thread's closure
    caller,     \* test_concurrent_writes: Procs -> the thread's index `i`
    current_rev, \* test_concurrent_writes: Procs -> `current.rev`, the rev the
                \*          thread read
    attempt,    \* test_concurrent_writes: Procs -> writes the retry loop has made
    spawned,    \* test_concurrent_writes: threads that have started running
    joined,     \* test_concurrent_writes: thread index -> what handle.join() gave
    against,    \* test_concurrent_writes: thread index -> the expected_rev of
                \*          the write that returned Ok to it, -1 when none has
    diskDir,    \* what the directory on disk names as target and as temp
    diskData,   \* the bytes on disk of the inodes the target and temp paths name
    crashes,    \* machine crashes so far
    supplied,   \* Procs -> the document the write in progress was called with
    wpath,      \* writers of several paths: Procs -> the writer's `path`
    wpc,        \* writers of several paths: Procs -> position in write
    wres,       \* writers of several paths: Procs -> what write returned
    wlock,      \* writers of several paths: Procs -> inode `lock_file` has open
    wtemp,      \* writers of several paths: Procs -> inode `temp_file` has open
    dentry,     \* writers of several paths: file name -> inode, 0 when absent
    ibytes,     \* writers of several paths: inode -> the writer whose document
                \*          it holds, 0 when it is empty
    flock,      \* writers of several paths: inode -> the thread that holds the
                \*          exclusive flock on it, 0 when none does
    scopes,     \* PathLockManager.scopes: task id -> TaskScope
    scopeRet,   \* PathLockManager: what the last add_scope returned
    cpc,        \* ManagedProcess: position in cancel_with_cascade
    sent,       \* ManagedProcess: the killpg calls made, in order, each with the
                \*          signal and whether the call succeeded
    waits,      \* ManagedProcess: what the waits on the child gave, in order
    cret,       \* ManagedProcess: what cancel_with_cascade returned
    group,      \* the child's process group: member -> the state of the process
    ignores     \* the child's process group: member -> the signals it survives

fsVars == <<targetIno, tempIno, lockIno, files>>
procVars == <<pc, op, data, expected_rev, fd, lock_file, locked, result>>
callVars == <<pc, op, data, expected_rev, locked, result>>
dataFs == <<targetIno, tempIno, files, fd>>
lockFs == <<lockIno, lock_file>>
rapidVars == <<tpc, ti, trev, tn, tdata>>
retryVars == <<hpc, caller, current_rev, attempt, spawned, joined, against>>
pathVars == <<wpath, wpc, wres, wlock, wtemp, dentry, ibytes, flock>>
scopeVars == <<scopes, scopeRet>>
termVars == <<cpc, sent, waits, cret, group, ignores>>
otherVars == <<pathVars, scopeVars, termVars>>
sideVars == <<supplied, otherVars>>
testVars == <<rapidVars, retryVars, sideVars>>
diskVars == <<diskDir, diskData, crashes>>
vars == <<targetIno, tempIno, lockIno, files, pc, op, data, expected_rev, fd,
          lock_file, locked, result, touched, faults, tpc, ti, trev, tn, tdata,
          hpc, caller, current_rev, attempt, spawned, joined, against,
          diskDir, diskData, crashes, supplied,
          wpath, wpc, wres, wlock, wtemp, dentry, ibytes, flock,
          scopes, scopeRet, cpc, sent, waits, cret, group, ignores>>

\* ------------------------------------------------------------- data model
\* Option<u64>
None == [some |-> FALSE, val |-> 0]
Some(e) == [some |-> TRUE, val |-> e]

\* TaskData; `tasks` is the list of task ids (updated_at is not modelled)
TaskData(v, r, t) == [version |-> v, rev |-> r, tasks |-> t]

\* a default that counts one write
DefaultDataRevOne == TaskData(1, 1, <<>>)

\* the document read() returns when the path does not exist
DefaultData == TaskData(1, 0, <<>>)

\* the documents and expected revs the unconstrained callers pass
Payloads == {<<>>, <<1>>}
Docs == {TaskData(1, r, t) : r \in 1..MaxRev, t \in Payloads}
Expecteds == {None} \cup {Some(e) : e \in 0..MaxRev}

\* a serializer that leaves the tasks out
to_stringNoTasks(d) == <<d.version, d.rev>>

\* serde_yaml::to_string: the fields in declaration order, then the tasks
to_string(d) == <<d.version, d.rev>> \o d.tasks

\* serde_yaml::from_str::<TaskData>: fails when a required field is missing
ParseOk(bytes) == Len(bytes) >= 2
from_str(bytes) == TaskData(bytes[1], bytes[2], SubSeq(bytes, 3, Len(bytes)))

\* the bytes of an inode after write_all(new) through a descriptor at offset 0
WriteAt(old, new) == new \o SubSeq(old, Len(new) + 1, Len(old))

\* results
Ok == [kind |-> "Ok"]
ErrLocked == [kind |-> "Locked"]
ErrIo == [kind |-> "Io"]
ErrYaml == [kind |-> "Yaml"]
ErrConflict(e, f) == [kind |-> "Conflict", expected |-> e, found |-> f]
OkData(d) == [kind |-> "Data", data |-> d]
NoResult == [kind |-> "None"]

\* ------------------------------------------------------------- file system
\* Inode numbers are not visible to the program: after every step the inodes
\* in use are renumbered in the order <<target, temp, descriptors of thread
\* 1, 2, ..>> first names them, and an inode nothing refers to is freed.
FirstRef(s, i) == CHOOSE k \in 1..Len(s) : s[k] = i /\ \A j \in 1..(k - 1) : s[j] # i
Live(s) == {s[k] : k \in 1..Len(s)} \ {0}
Renumber(s, i) ==
    IF i = 0 THEN 0
    ELSE Cardinality({j \in Live(s) : FirstRef(s, j) <= FirstRef(s, i)})

\* the data files become: target t, temp m, bytes f, data descriptors fds
SetData(t, m, f, fds) ==
    LET s == <<t, m>> \o [k \in 1..NumProcs |-> fds[k]]
    IN  /\ targetIno' = Renumber(s, t)
        /\ tempIno' = Renumber(s, m)
        /\ fd' = [p \in Procs |-> Renumber(s, fds[p])]
        /\ files' = [i \in DataInodes |->
                        IF \E j \in Live(s) : Renumber(s, j) = i
                        THEN f[CHOOSE j \in Live(s) : Renumber(s, j) = i]
                        ELSE <<>>]

\* the lock files become: lock path l, lock descriptors lfs
SetLock(l, lfs) ==
    LET s == <<l>> \o [k \in 1..NumProcs |-> lfs[k]]
    IN  /\ lockIno' = Renumber(s, l)
        /\ lock_file' = [p \in Procs |-> Renumber(s, lfs[p])]

\* the inode a create() gets: one that is not in use
FreeData ==
    CHOOSE i \in DataInodes : i \notin ({targetIno, tempIno} \cup {fd[p] : p \in Procs})
FreeLock ==
    CHOOSE i \in LockInodes : i \notin ({lockIno} \cup {lock_file[p] : p \in Procs})

\* ----------------------------------------------------------------- returns
\* a return that forgets the lock: the lock descriptor stays open, locked
ReturnHoldingLock(p, r) ==
    /\ pc' = [pc EXCEPT ![p] = "idle"]
    /\ op' = [op EXCEPT ![p] = "none"]
    /\ result' = [result EXCEPT ![p] = r]
    /\ data' = [data EXCEPT ![p] = DefaultData]
    /\ expected_rev' = [expected_rev EXCEPT ![p] = None]
    /\ UNCHANGED <<locked, lockFs>>

\* a call returns r; its locals are dropped: the data descriptor is closed,
\* the lock descriptor is closed and with it the flock is released
Return(p, r) ==
    /\ pc' = [pc EXCEPT ![p] = "idle"]
    /\ op' = [op EXCEPT ![p] = "none"]
    /\ result' = [result EXCEPT ![p] = r]
    /\ locked' = [locked EXCEPT ![p] = FALSE]
    /\ data' = [data EXCEPT ![p] = DefaultData]
    /\ expected_rev' = [expected_rev EXCEPT ![p] = None]
    /\ SetLock(lockIno, [lock_file EXCEPT ![p] = 0])

\* ... with the data files as they are
ReturnClosing(p, r) ==
    /\ Return(p, r)
    /\ SetData(targetIno, tempIno, files, [fd EXCEPT ![p] = 0])

\* what the path names: whether it exists, and its bytes
TargetBytes == <<targetIno # 0, IF targetIno = 0 THEN <<>> ELSE files[targetIno]>>

\* the target path names a file that parses as a document
TargetParses == targetIno # 0 /\ ParseOk(files[targetIno])

\* thread p's step has (or has not) changed what the target path names
Touch(p) == touched' = [touched EXCEPT ![p] = @ \/ TargetBytes' # TargetBytes]

\* no file exists, no call is in progress
InitStore ==
    /\ targetIno = 0 /\ tempIno = 0 /\ lockIno = 0
    /\ files = [i \in DataInodes |-> <<>>]
    /\ pc = [p \in Procs |-> "idle"]
    /\ op = [p \in Procs |-> "none"]
    /\ data = [p \in Procs |-> DefaultData]
    /\ expected_rev = [p \in Procs |-> None]
    /\ fd = [p \in Procs |-> 0]
    /\ lock_file = [p \in Procs |-> 0]
    /\ locked = [p \in Procs |-> FALSE]
    /\ result = [p \in Procs |-> NoResult]
    /\ touched = [p \in Procs |-> FALSE]
    /\ faults = 0

\* the threads of test_concurrent_writes, by their index `i`
Callers == 1..NumCallers

\* no thread of test_concurrent_writes has been spawned
NoRetry ==
    /\ hpc = [p \in Procs |-> "off"]
    /\ caller = [p \in Procs |-> 0]
    /\ current_rev = [p \in Procs |-> 0]
    /\ attempt = [p \in Procs |-> 0]
    /\ spawned = 0
    /\ joined = [c \in Callers |-> NoResult]
    /\ against = [c \in Callers |-> -1]

\* The disk, as far as fsync has made it certain.  The directory on disk
\* names inodes by what they are to the running program: "cur" the inode the
\* target path names, "temp" the inode the temp path names, "old" the inode
\* the target path named before the last rename, "none" no inode.  diskData
\* has the bytes of these inodes that are on disk.
NoDisk ==
    /\ diskDir = [target |-> "none", temp |-> "none", lock |-> FALSE]
    /\ diskData = [cur |-> <<>>, temp |-> <<>>, old |-> <<>>]
    /\ crashes = 0

\* File names, by their parts between the dots: <<"a", "yml">> is a.yml.
Stems == {"a", "b"}
Extensions == {"yml", "json", "tmp", "lock"}
Names == {<<s>> : s \in Stems} \cup {<<s, e>> : s \in Stems, e \in Extensions}

\* Path::with_extension: the part after the last dot is replaced by the
\* extension; a name without a dot gets the extension added
with_extension(name, e) ==
    IF Len(name) > 1 THEN SubSeq(name, 1, Len(name) - 1) \o <<e>> ELSE name \o <<e>>

\* the inodes of the directory the paths are in
PathInodes == 1..(2 * NumProcs)

\* no writer of several paths runs
NoPaths ==
    /\ wpath = [p \in Procs |-> <<"a">>]
    /\ wpc = [p \in Procs |-> "done"]
    /\ wres = [p \in Procs |-> "None"]
    /\ wlock = [p \in Procs |-> 0]
    /\ wtemp = [p \in Procs |-> 0]
    /\ dentry = [n \in Names |-> 0]
    /\ ibytes = [i \in PathInodes |-> 0]
    /\ flock = [i \in PathInodes |-> 0]

\* no caller's document is followed
NoSupplied == supplied = [p \in Procs |-> DefaultData]

\* PathLockManager::new(): no scope is registered
NoScopes ==
    /\ scopes = [t \in {} |-> {}]
    /\ scopeRet = "None"

\* The process group of a spawned child: member 0 is the child, the group's
\* leader (setpgid(0, 0) in pre_exec), the others are processes it started.
Members == 0..NumDescendants

\* no child has been spawned
NoTerm ==
    /\ cpc = "off"
    /\ sent = <<>>
    /\ waits = <<>>
    /\ cret = "None"
    /\ group = [m \in Members |-> "reaped"]
    /\ ignores = [m \in Members |-> {}]

NoSide ==
    /\ NoSupplied
    /\ NoPaths
    /\ NoScopes
    /\ NoTerm

Init ==
    /\ InitStore
    /\ tpc = "off" /\ ti = 0 /\ trev = 0 /\ tn = 0 /\ tdata = DefaultData
    /\ NoRetry
    /\ NoDisk
    /\ NoSide

\* ------------------------------------------------------------------ write
\* a thread calls write(data, expected_rev)
StartWrite(p, d, e) ==
    /\ pc[p] = "idle"
    /\ pc' = [pc EXCEPT ![p] = "open_lock"]
    /\ op' = [op EXCEPT ![p] = "write"]
    /\ data' = [data EXCEPT ![p] = d]
    /\ expected_rev' = [expected_rev EXCEPT ![p] = e]
    /\ result' = [result EXCEPT ![p] = NoResult]
    /\ touched' = [touched EXCEPT ![p] = FALSE]
    /\ UNCHANGED <<locked, dataFs, lockFs, faults>>

\* create_dir_all (the directory exists), then open the lock file, creating it
OpenLock(p) ==
    /\ pc[p] = "open_lock"
    /\ LET l == IF lockIno = 0 THEN FreeLock ELSE lockIno
       IN  SetLock(l, [lock_file EXCEPT ![p] = l])
    /\ pc' = [pc EXCEPT ![p] = "try_lock"]
    /\ UNCHANGED <<dataFs, op, data, expected_rev, locked, result, faults, testVars>>
    /\ Touch(p)

\* a lock taken to be held whenever the lock path names a file
LockRefusedWhilePresent(p) == lockIno # 0

\* flock(LOCK_EX | LOCK_NB) on the open lock file: refused while another open
\* descriptor of the same inode holds the lock
LockRefused(p) ==
    \E q \in Procs \ {p} : locked[q] /\ lock_file[q] = lock_file[p]

\* a writer that goes on without asking for the lock
TryLockSkipped(p) ==
    /\ pc[p] = "try_lock"
    /\ pc' = [pc EXCEPT ![p] = "check"]
    /\ UNCHANGED <<dataFs, lockFs, op, data, expected_rev, locked, result, faults,
                   testVars>>
    /\ Touch(p)

TryLock(p) ==
    /\ pc[p] = "try_lock"
    /\ IF LockRefused(p)
       THEN ReturnClosing(p, ErrLocked)
       ELSE /\ locked' = [locked EXCEPT ![p] = TRUE]
            /\ pc' = [pc EXCEPT ![p] = "check"]
            /\ UNCHANGED <<dataFs, lockFs, op, data, expected_rev, result>>
    /\ UNCHANGED <<faults, testVars>>
    /\ Touch(p)

\* a check that does not look whether the path exists
NeedsCheckWhenSome(p) == expected_rev[p].some

\* a check that does not look at expected_rev
NeedsCheckWhenExists(p) == targetIno # 0

\* if let Some(expected) = expected_rev { if self.path.exists() { self.read() ..
NeedsCheck(p) == expected_rev[p].some /\ targetIno # 0

Check(p) ==
    /\ pc[p] = "check"
    /\ pc' = [pc EXCEPT ![p] = IF NeedsCheck(p) THEN "read_open" ELSE "open_temp"]
    /\ UNCHANGED <<dataFs, lockFs, op, data, expected_rev, locked, result, faults,
                   testVars>>
    /\ Touch(p)

\* the comparison with the new document's position taken for the current one:
\* the check `current.rev + 1 != expected`
IsConflictOffByOne(current, expected) == current.rev + 1 # expected

\* current.rev != expected
IsConflict(current, expected) == current.rev # expected

\* read() returned `current`: to its caller, or into write's conflict check
ReadReturns(p, current) ==
    IF op[p] = "read"
    THEN ReturnClosing(p, OkData(current))
    ELSE IF IsConflict(current, expected_rev[p].val)
         THEN ReturnClosing(p, ErrConflict(expected_rev[p].val, current.rev))
         ELSE /\ pc' = [pc EXCEPT ![p] = "open_temp"]
              /\ SetData(targetIno, tempIno, files, [fd EXCEPT ![p] = 0])
              /\ UNCHANGED <<lockFs, op, data, expected_rev, locked, result>>

\* OpenOptions create + write + truncate on the temp path
OpenTemp(p) ==
    /\ pc[p] = "open_temp"
    /\ LET m == IF tempIno = 0 THEN FreeData ELSE tempIno
       IN  SetData(targetIno, m, [files EXCEPT ![m] = <<>>], [fd EXCEPT ![p] = m])
    /\ pc' = [pc EXCEPT ![p] = "write_temp"]
    /\ UNCHANGED <<lockFs, op, data, expected_rev, locked, result, faults, testVars>>
    /\ Touch(p)

\* serde_yaml::to_string(data), temp_file.write_all; `data` is not used again
WriteTemp(p) ==
    /\ pc[p] = "write_temp"
    /\ files' = [files EXCEPT ![fd[p]] = WriteAt(@, to_string(data[p]))]
    /\ data' = [data EXCEPT ![p] = DefaultData]
    /\ pc' = [pc EXCEPT ![p] = "sync_temp"]
    /\ UNCHANGED <<targetIno, tempIno, fd, lockFs, op, expected_rev, locked, result,
                   faults, testVars>>
    /\ Touch(p)

\* temp_file.sync_all(); drop(temp_file)
SyncTemp(p) ==
    /\ pc[p] = "sync_temp"
    /\ SetData(targetIno, tempIno, files, [fd EXCEPT ![p] = 0])
    /\ pc' = [pc EXCEPT ![p] = "sync_dir"]
    /\ UNCHANGED <<lockFs, op, data, expected_rev, locked, result, faults, testVars>>
    /\ Touch(p)

\* File::open(parent)?.sync_all()
SyncDir(p) ==
    /\ pc[p] = "sync_dir"
    /\ pc' = [pc EXCEPT ![p] = "rename"]
    /\ UNCHANGED <<dataFs, lockFs, op, data, expected_rev, locked, result, faults,
                   testVars>>
    /\ Touch(p)

\* fs::rename(temp_path, path): whatever the temp path names replaces the
\* target; ENOENT when the temp path names nothing
Rename(p) ==
    /\ pc[p] = "rename"
    /\ IF tempIno = 0
       THEN ReturnClosing(p, ErrIo)
       ELSE /\ SetData(tempIno, 0, files, fd)
            /\ pc' = [pc EXCEPT ![p] = "drop_lock"]
            /\ UNCHANGED <<lockFs, op, data, expected_rev, locked, result>>
    /\ UNCHANGED <<faults, testVars>>
    /\ Touch(p)

\* drop(lock_file): the descriptor is closed, the flock released
DropLock(p) ==
    /\ pc[p] = "drop_lock"
    /\ SetLock(lockIno, [lock_file EXCEPT ![p] = 0])
    /\ locked' = [locked EXCEPT ![p] = FALSE]
    /\ pc' = [pc EXCEPT ![p] = "remove_lock"]
    /\ UNCHANGED <<dataFs, op, data, expected_rev, result, faults, testVars>>
    /\ Touch(p)

\* let _ = fs::remove_file(lock_path); Ok(())
RemoveLock(p) ==
    /\ pc[p] = "remove_lock"
    /\ pc' = [pc EXCEPT ![p] = "idle"]
    /\ op' = [op EXCEPT ![p] = "none"]
    /\ result' = [result EXCEPT ![p] = Ok]
    /\ expected_rev' = [expected_rev EXCEPT ![p] = None]
    /\ SetLock(0, lock_file)
    /\ UNCHANGED <<dataFs, data, locked, faults, testVars>>
    /\ Touch(p)

\* ------------------------------------------------------------------- read
StartRead(p) ==
    /\ pc[p] = "idle"
    /\ pc' = [pc EXCEPT ![p] = "read_open"]
    /\ op' = [op EXCEPT ![p] = "read"]
    /\ result' = [result EXCEPT ![p] = NoResult]
    /\ touched' = [touched EXCEPT ![p] = FALSE]
    /\ UNCHANGED <<data, expected_rev, locked, dataFs, lockFs, faults>>

\* if !self.path.exists() { return Ok(default) }; File::open(path)
ReadOpen(p) ==
    /\ pc[p] = "read_open"
    /\ IF targetIno = 0
       THEN ReadReturns(p, DefaultData)
       ELSE /\ SetData(targetIno, tempIno, files, [fd EXCEPT ![p] = targetIno])
            /\ pc' = [pc EXCEPT ![p] = "read_contents"]
            /\ UNCHANGED <<lockFs, op, data, expected_rev, locked, result>>
    /\ UNCHANGED <<faults, testVars>>
    /\ Touch(p)

\* a read that takes content it cannot parse for no content
ReadContentsRepairing(p) ==
    /\ pc[p] = "read_contents"
    /\ IF ParseOk(files[fd[p]])
       THEN ReadReturns(p, from_str(files[fd[p]]))
       ELSE ReadReturns(p, DefaultData)
    /\ UNCHANGED <<faults, testVars>>
    /\ Touch(p)

\* lock_shared (no thread ever takes an exclusive flock on the data file, so it
\* is granted at once), read_to_string, serde_yaml::from_str, drop(file)
ReadContents(p) ==
    /\ pc[p] = "read_contents"
    /\ IF ParseOk(files[fd[p]])
       THEN ReadReturns(p, from_str(files[fd[p]]))
       ELSE ReturnClosing(p, ErrYaml)
    /\ UNCHANGED <<faults, testVars>>
    /\ Touch(p)

\* ----------------------------------------------------------------- faults
\* the statements whose io::Error the `?` operator propagates
Fallible == {"open_lock", "read_open", "read_contents", "open_temp", "write_temp",
             "sync_temp", "sync_dir", "rename"}

\* what a write_all that fails may have written: any proper prefix of the bytes
Prefixes(bytes) == {SubSeq(bytes, 1, k) : k \in 0..(Len(bytes) - 1)}

\* an I/O error at the current statement (read returns the default before
\* any fallible call when the path does not exist)
IoFail(p) ==
    /\ pc[p] \in Fallible
    /\ pc[p] = "read_open" => targetIno # 0
    /\ faults < MaxFaults
    /\ faults' = faults + 1
    /\ Return(p, ErrIo)
    /\ IF pc[p] = "write_temp"
       THEN \E w \in Prefixes(to_string(data[p])) :
                SetData(targetIno, tempIno, [files EXCEPT ![fd[p]] = WriteAt(@, w)],
                        [fd EXCEPT ![p] = 0])
       ELSE SetData(targetIno, tempIno, files, [fd EXCEPT ![p] = 0])
    /\ UNCHANGED <<testVars, diskVars>>
    /\ Touch(p)

\* ---------------------------------------------------------------- callers
\* any thread calls write or read with any arguments at any time
CallWrite(p) ==
    /\ \E d \in Docs, e \in Expecteds : StartWrite(p, d, e)
    /\ UNCHANGED <<testVars, diskVars>>

CallRead(p) ==
    /\ StartRead(p)
    /\ UNCHANGED <<testVars, diskVars>>

\* one step of a call in progress, without faults: a statement that makes
\* nothing certain on disk ...
CacheStep(p) ==
    \/ OpenLock(p) /\ UNCHANGED diskVars
    \/ TryLock(p) /\ UNCHANGED diskVars
    \/ Check(p) /\ UNCHANGED diskVars
    \/ ReadOpen(p) /\ UNCHANGED diskVars
    \/ ReadContents(p) /\ UNCHANGED diskVars
    \/ OpenTemp(p) /\ UNCHANGED diskVars
    \/ WriteTemp(p) /\ UNCHANGED diskVars
    \/ DropLock(p) /\ UNCHANGED diskVars
    \/ RemoveLock(p) /\ UNCHANGED diskVars

\* ... or any statement, where the disk is not followed (no crash happens)
Step(p) ==
    \/ CacheStep(p)
    \/ SyncTemp(p) /\ UNCHANGED diskVars
    \/ SyncDir(p) /\ UNCHANGED diskVars
    \/ Rename(p) /\ UNCHANGED diskVars

Next == \E p \in Procs : CallWrite(p) \/ CallRead(p) \/ Step(p) \/ IoFail(p)

Spec == Init /\ [][Next]_vars

\* ------------------------------------------------------ test_rapid_writes
\* The test body, run by thread 1 on a path it has just removed; the number of
\* iterations (100 in the test) is any number up to MaxWrites.
InitRapid ==
    /\ InitStore
    /\ tpc = "loop" /\ ti = 0 /\ trev = 0
    /\ tn \in 0..MaxWrites
    /\ tdata = DefaultData
    /\ NoRetry
    /\ NoDisk
    /\ NoSide

\* for i in 0..n { data = TaskData { rev: i + 1, tasks: [task-i] };
\*                 writer.write(&data, Some(rev)) ...
RapidWrite ==
    /\ tpc = "loop" /\ ti < tn
    /\ StartWrite(1, TaskData(1, ti + 1, <<ti>>), Some(trev))
    /\ tpc' = "write"
    /\ UNCHANGED <<ti, trev, tn, tdata, retryVars, sideVars, diskVars>>

\* ... ?; rev = i + 1 }
RapidWritten ==
    /\ tpc = "write" /\ pc[1] = "idle"
    /\ IF result[1] = Ok
       THEN tpc' = "loop" /\ trev' = ti + 1 /\ ti' = ti + 1
       ELSE tpc' = "failed" /\ UNCHANGED <<ti, trev>>
    /\ UNCHANGED <<fsVars, procVars, touched, faults, tn, tdata, retryVars, sideVars, diskVars>>

\* let final_data = writer.read() ...
RapidRead ==
    /\ tpc = "loop" /\ ti = tn
    /\ StartRead(1)
    /\ tpc' = "read"
    /\ UNCHANGED <<ti, trev, tn, tdata, retryVars, sideVars, diskVars>>

\* ... ?; assert_eq!(final_data.rev, n)
RapidFinal ==
    /\ tpc = "read" /\ pc[1] = "idle"
    /\ tpc' = (IF result[1].kind = "Data" THEN "done" ELSE "failed")
    /\ UNCHANGED <<fsVars, procVars, touched, faults, ti, trev, tn, tdata, retryVars, sideVars, diskVars>>

NextRapid == RapidWrite \/ RapidWritten \/ RapidRead \/ RapidFinal \/ Step(1)

SpecRapid == InitRapid /\ [][NextRapid]_vars

\* ------------------------------------- test_basic_write, test_data_integrity
\* The body of the tests, write(&data, ..) then read(), run by thread 1 any
\* number of times with any document, on whatever the runs before have left
\* (a run whose write fails reads nothing).
TripDocs == {TaskData(v, r, t) : v \in 1..2, r \in 0..MaxRev, t \in {<<>>, <<1>>, <<1, 2>>}}

InitTrip ==
    /\ InitStore
    /\ tpc = "trip" /\ ti = 0 /\ trev = 0 /\ tn = 0 /\ tdata = DefaultData
    /\ NoRetry
    /\ NoDisk
    /\ NoSide

\* writer.write(&data, None) ..., and with any expected_rev
TripWrite ==
    /\ tpc = "trip"
    /\ \E d \in TripDocs, e \in Expecteds :
          /\ StartWrite(1, d, e)
          /\ tdata' = d
    /\ tpc' = "trip_write"
    /\ UNCHANGED <<ti, trev, tn, retryVars, sideVars, diskVars>>

\* ... ?; let read_data = writer.read() ...
TripRead ==
    /\ tpc = "trip_write" /\ pc[1] = "idle"
    /\ IF result[1] = Ok
       THEN StartRead(1) /\ tpc' = "trip_read"
       ELSE tpc' = "trip" /\ UNCHANGED <<fsVars, procVars, touched, faults>>
    /\ UNCHANGED <<ti, trev, tn, tdata, retryVars, sideVars, diskVars>>

\* ... ?; assert_eq!(data, read_data)
TripCompared ==
    /\ tpc = "trip_read" /\ pc[1] = "idle"
    /\ tpc' = "trip"
    /\ UNCHANGED <<fsVars, procVars, touched, faults, ti, trev, tn, tdata, retryVars,
                   sideVars, diskVars>>

NextTrip == TripWrite \/ TripRead \/ TripCompared \/ Step(1) \/ IoFail(1)

SpecTrip == InitTrip /\ [][NextTrip]_vars

\* ------------------------------------------------- test_concurrent_writes
\* The closure each spawned thread runs, on a path the test has just removed.
\* NumCallers threads are spawned (10 in the test); at most NumProcs of them
\* are under way at a time, the others have not started or have returned.

\* for _ in 0..5
max_retries == 5

\* Err(anyhow!("Failed after retries"))
ErrRetries == [kind |-> "Retries"]

\* new_data = TaskData { rev: current.rev + 1, tasks: vec![task-i] }
NewData(p) == TaskData(1, current_rev[p] + 1, <<caller[p]>>)

\* the loop goes round once more than `0..5` does
MoreRetriesOneMore(a) == a <= max_retries

\* the loop `for _ in 0..5` has another iteration after `a` writes
MoreRetries(a) == a < max_retries

\* a guard that takes Locked for a conflict too
contains_ConflictOrLocked(r) == r.kind \in {"Conflict", "Locked"}

\* e.to_string().contains("Conflict"): of the errors' messages only
\* "Conflict detected: ..." has the word
contains_Conflict(r) == r.kind = "Conflict"

\* thread::spawn(move || { ... writer.read()
Spawn(p) ==
    /\ hpc[p] = "off" /\ spawned < NumCallers
    /\ spawned' = spawned + 1
    /\ caller' = [caller EXCEPT ![p] = spawned + 1]
    /\ attempt' = [attempt EXCEPT ![p] = 0]
    /\ hpc' = [hpc EXCEPT ![p] = "read"]
    /\ StartRead(p)
    /\ UNCHANGED <<current_rev, joined, against, rapidVars, sideVars, diskVars>>

\* ... .unwrap_or_else(|_| TaskData { rev: 0, .. }); the first iteration of the
\* loop: writer.write(&new_data, Some(current.rev))
ReadDone(p) ==
    /\ hpc[p] = "read" /\ pc[p] = "idle"
    /\ current_rev' = [current_rev EXCEPT
                         ![p] = IF result[p].kind = "Data" THEN result[p].data.rev ELSE 0]
    /\ attempt' = [attempt EXCEPT ![p] = 1]
    /\ hpc' = [hpc EXCEPT ![p] = "write"]
    /\ UNCHANGED caller
    /\ StartWrite(p, NewData(p)', Some(current_rev'[p]))
    /\ UNCHANGED <<spawned, joined, against, rapidVars, sideVars, diskVars>>

\* match writer.write(..) { Ok(_) => return Ok(()),
\*   Err(e) if e.to_string().contains("Conflict") => { sleep; continue }
\*   Err(e) => return Err(e) }  ...  Err(anyhow!("Failed after retries"))
Attempted(p) ==
    /\ hpc[p] = "write" /\ pc[p] = "idle"
    /\ IF contains_Conflict(result[p]) /\ MoreRetries(attempt[p])
       THEN /\ attempt' = [attempt EXCEPT ![p] = @ + 1]
            /\ StartWrite(p, NewData(p), Some(current_rev[p]))
            /\ UNCHANGED <<hpc, joined, against>>
       ELSE /\ hpc' = [hpc EXCEPT ![p] = "off"]
            /\ joined' = [joined EXCEPT ![caller[p]] =
                             IF contains_Conflict(result[p]) THEN ErrRetries
                             ELSE result[p]]
            /\ against' = [against EXCEPT ![caller[p]] =
                              IF result[p] = Ok THEN current_rev[p] ELSE @]
            /\ UNCHANGED <<procVars, dataFs, lockFs, touched, faults, attempt>>
    /\ UNCHANGED <<caller, current_rev, spawned, rapidVars, sideVars, diskVars>>

\* a step of one thread
ThreadStep(p) == Spawn(p) \/ ReadDone(p) \/ Attempted(p) \/ Step(p) \/ IoFail(p)

NextRetry == \E p \in Procs : ThreadStep(p)

SpecRetry == Init /\ [][NextRetry]_vars

\* the scheduler runs every thread that can take a step
SpecRetryFair == SpecRetry /\ \A p \in Procs : WF_vars(ThreadStep(p))

\* ------------------------------------------------------------------ crash
\* One process, thread 1, calls write and read; the machine may crash at any
\* time, and the process starts again on what the disk then holds.

\* temp_file.sync_all(): the bytes of the descriptor's inode are on disk
SyncTempDisk(p) ==
    /\ SyncTemp(p)
    /\ diskData' = IF fd[p] = tempIno THEN [diskData EXCEPT !.temp = files[fd[p]]]
                   ELSE IF fd[p] = targetIno THEN [diskData EXCEPT !.cur = files[fd[p]]]
                   ELSE diskData
    /\ UNCHANGED <<diskDir, crashes>>

\* parent_dir.sync_all(): the directory on disk names what the directory names
SyncDirDisk(p) ==
    /\ SyncDir(p)
    /\ diskDir' = [target |-> IF targetIno = 0 THEN "none" ELSE "cur",
                   temp |-> IF tempIno = 0 THEN "none" ELSE "temp",
                   lock |-> lockIno # 0]
    /\ UNCHANGED <<diskData, crashes>>

\* fs::rename: nothing reaches the disk; the inode the temp path named is now
\* the target's, the one the target named is the old one
RenameDisk(p) ==
    /\ Rename(p)
    /\ IF tempIno = 0
       THEN UNCHANGED <<diskDir, diskData>>
       ELSE /\ diskDir' = [diskDir EXCEPT
                              !.target = IF @ = "cur" THEN "old" ELSE @,
                              !.temp = IF @ = "temp" THEN "cur" ELSE "none"]
            /\ diskData' = [cur |-> diskData.temp, temp |-> <<>>,
                            old |-> IF diskDir.target = "cur" THEN diskData.cur
                                    ELSE diskData.old]
    /\ UNCHANGED crashes

\* a directory entry: whether the name exists, and the bytes of its inode
Absent == <<FALSE, <<>>>>

\* the bytes an inode may hold after a crash: those certain on disk, or any
\* part of what has been written to it since
Torn(onDisk, cached) ==
    IF onDisk = cached THEN {cached} ELSE {onDisk, cached} \cup Prefixes(cached)

\* what a name may hold after a crash, by the inode the name has on disk
Entries(ino) ==
    CASE ino = "none" -> {Absent}
      [] ino = "old" -> {<<TRUE, diskData.old>>}
      [] ino = "cur" -> {<<TRUE, b>> : b \in Torn(diskData.cur, files[targetIno])}
      [] ino = "temp" -> {<<TRUE, b>> : b \in Torn(diskData.temp, files[tempIno])}

\* the directory after a crash: as it is on disk, or with the rename made
\* since the last directory fsync, or with everything done since
Outcomes ==
    LET dir(t, m) == {[target |-> a, temp |-> b, lock |-> l] :
                        a \in Entries(t), b \in Entries(m),
                        l \in {diskDir.lock, lockIno # 0}}
        t == IF targetIno = 0 THEN "none" ELSE "cur"
        m == IF tempIno = 0 THEN "none" ELSE "temp"
    IN  dir(diskDir.target, diskDir.temp)
          \cup (IF diskDir.temp = "cur" THEN dir(t, "none") ELSE {})
          \cup dir(t, m)

\* the machine crashes and the process starts again: no call is in progress,
\* the paths name what the disk holds
Crash ==
    /\ crashes < MaxCrashes
    /\ crashes' = crashes + 1
    /\ \E o \in Outcomes :
         /\ SetData(IF o.target[1] THEN 1 ELSE 0, IF o.temp[1] THEN 2 ELSE 0,
                    [i \in DataInodes |-> IF i = 1 THEN o.target[2]
                                          ELSE IF i = 2 THEN o.temp[2] ELSE <<>>],
                    [p \in Procs |-> 0])
         /\ SetLock(IF o.lock THEN 1 ELSE 0, [p \in Procs |-> 0])
         /\ diskDir' = [target |-> IF o.target[1] THEN "cur" ELSE "none",
                        temp |-> IF o.temp[1] THEN "temp" ELSE "none",
                        lock |-> o.lock]
         /\ diskData' = [cur |-> o.target[2], temp |-> o.temp[2], old |-> <<>>]
    /\ pc' = [p \in Procs |-> "idle"]
    /\ op' = [p \in Procs |-> "none"]
    /\ data' = [p \in Procs |-> DefaultData]
    /\ expected_rev' = [p \in Procs |-> None]
    /\ locked' = [p \in Procs |-> FALSE]
    /\ result' = [p \in Procs |-> NoResult]
    /\ touched' = [p \in Procs |-> FALSE]
    /\ UNCHANGED <<faults, testVars>>

NextCrash ==
    \/ CallWrite(1) \/ CallRead(1) \/ CacheStep(1)
    \/ SyncTempDisk(1) \/ SyncDirDisk(1) \/ RenameDisk(1)
    \/ Crash

SpecCrash == Init /\ [][NextCrash]_vars

\* ------------------------------------------- writes where no target exists
\* a thread calls write(d, e) on a path that names no file yet; the document
\* it passes is remembered
CallFresh(p) ==
    /\ targetIno = 0
    /\ \E d \in Docs, e \in Expecteds :
          /\ StartWrite(p, d, e)
          /\ supplied' = [supplied EXCEPT ![p] = d]
    /\ UNCHANGED <<rapidVars, retryVars, diskVars, otherVars>>

NextFresh == \E p \in Procs : CallFresh(p) \/ CallRead(p) \/ Step(p) \/ IoFail(p)

SpecFresh == Init /\ [][NextFresh]_vars

\* ------------------------------------ a target that is not a document
\* what the target file holds when it has been cut short: nothing, or the
\* first field only
Garbled == {<<>>, <<1>>}

\* the path names a file that does not parse; no call is in progress
InitGarbled ==
    /\ targetIno = 1 /\ tempIno = 0 /\ lockIno = 0
    /\ \E g \in Garbled : files = [i \in DataInodes |-> IF i = 1 THEN g ELSE <<>>]
    /\ pc = [p \in Procs |-> "idle"]
    /\ op = [p \in Procs |-> "none"]
    /\ data = [p \in Procs |-> DefaultData]
    /\ expected_rev = [p \in Procs |-> None]
    /\ fd = [p \in Procs |-> 0]
    /\ lock_file = [p \in Procs |-> 0]
    /\ locked = [p \in Procs |-> FALSE]
    /\ result = [p \in Procs |-> NoResult]
    /\ touched = [p \in Procs |-> FALSE]
    /\ faults = 0
    /\ tpc = "off" /\ ti = 0 /\ trev = 0 /\ tn = 0 /\ tdata = DefaultData
    /\ NoRetry
    /\ NoDisk
    /\ NoSide

\* a thread calls write(d, e) while the target does not parse
WriteGarbled(p) ==
    /\ ~TargetParses
    /\ \E d \in Docs, e \in Expecteds :
          /\ StartWrite(p, d, e)
          /\ supplied' = [supplied EXCEPT ![p] = d]
    /\ UNCHANGED <<rapidVars, retryVars, diskVars, otherVars>>

\* a thread calls read() while the target does not parse
ReadGarbled(p) ==
    /\ ~TargetParses
    /\ StartRead(p)
    /\ supplied' = [supplied EXCEPT ![p] = DefaultData]
    /\ UNCHANGED <<rapidVars, retryVars, diskVars, otherVars>>

NextGarbled ==
    \E p \in Procs : WriteGarbled(p) \/ ReadGarbled(p) \/ Step(p) \/ IoFail(p)

SpecGarbled == InitGarbled /\ [][NextGarbled]_vars

\* ------------------------------------------------ writers of several paths
\* Each thread has an AtomicYamlWriter of a path of its own choice in one
\* directory and calls write(data, None) once.  The files are followed by
\* name, the locks by inode.
yamlVars == <<fsVars, procVars, touched, faults, rapidVars, retryVars, diskVars,
              supplied>>

exceptPaths == <<yamlVars, scopeVars, termVars>>

\* let lock_path = self.path.with_extension("lock")
lock_path(p) == with_extension(wpath[p], "lock")

\* let temp_path = self.path.with_extension("tmp")
temp_path(p) == with_extension(wpath[p], "tmp")

\* the inode a create() gets
FreeInode ==
    CHOOSE i \in PathInodes :
        /\ \A n \in Names : dentry[n] # i
        /\ \A p \in Procs : wlock[p] # i /\ wtemp[p] # i

InitPaths ==
    /\ InitStore
    /\ tpc = "off" /\ ti = 0 /\ trev = 0 /\ tn = 0 /\ tdata = DefaultData
    /\ NoRetry
    /\ NoDisk
    /\ NoSupplied
    /\ wpath \in [Procs -> Names]
    /\ wpc = [p \in Procs |-> "open_lock"]
    /\ wres = [p \in Procs |-> "None"]
    /\ wlock = [p \in Procs |-> 0]
    /\ wtemp = [p \in Procs |-> 0]
    /\ dentry = [n \in Names |-> 0]
    /\ ibytes = [i \in PathInodes |-> 0]
    /\ flock = [i \in PathInodes |-> 0]
    /\ NoScopes
    /\ NoTerm

\* OpenOptions create + write on lock_path: the file the name has, or a new one
PathOpenLock(p) ==
    /\ wpc[p] = "open_lock"
    /\ LET l == IF dentry[lock_path(p)] = 0 THEN FreeInode ELSE dentry[lock_path(p)]
       IN  /\ dentry' = [dentry EXCEPT ![lock_path(p)] = l]
           /\ wlock' = [wlock EXCEPT ![p] = l]
    /\ wpc' = [wpc EXCEPT ![p] = "try_lock"]
    /\ UNCHANGED <<wpath, wres, wtemp, ibytes, flock, exceptPaths>>

\* try_lock_exclusive().map_err(|_| Locked)?
PathTryLock(p) ==
    /\ wpc[p] = "try_lock"
    /\ IF flock[wlock[p]] \notin {0, p}
       THEN /\ wres' = [wres EXCEPT ![p] = "Locked"]
            /\ wpc' = [wpc EXCEPT ![p] = "done"]
            /\ wlock' = [wlock EXCEPT ![p] = 0]
            /\ UNCHANGED flock
       ELSE /\ flock' = [flock EXCEPT ![wlock[p]] = p]
            /\ wpc' = [wpc EXCEPT ![p] = "open_temp"]
            /\ UNCHANGED <<wres, wlock>>
    /\ UNCHANGED <<wpath, wtemp, dentry, ibytes, exceptPaths>>

\* expected_rev is None: no check.  OpenOptions create + write + truncate on
\* temp_path
PathOpenTemp(p) ==
    /\ wpc[p] = "open_temp"
    /\ LET t == IF dentry[temp_path(p)] = 0 THEN FreeInode ELSE dentry[temp_path(p)]
       IN  /\ dentry' = [dentry EXCEPT ![temp_path(p)] = t]
           /\ ibytes' = [ibytes EXCEPT ![t] = 0]
           /\ wtemp' = [wtemp EXCEPT ![p] = t]
    /\ wpc' = [wpc EXCEPT ![p] = "write_temp"]
    /\ UNCHANGED <<wpath, wres, wlock, flock, exceptPaths>>

\* write_all(yaml), sync_all, drop(temp_file), sync of the parent directory
PathWriteTemp(p) ==
    /\ wpc[p] = "write_temp"
    /\ ibytes' = [ibytes EXCEPT ![wtemp[p]] = p]
    /\ wtemp' = [wtemp EXCEPT ![p] = 0]
    /\ wpc' = [wpc EXCEPT ![p] = "rename"]
    /\ UNCHANGED <<wpath, wres, wlock, dentry, flock, exceptPaths>>

\* fs::rename(temp_path, path)?; ENOENT when temp_path names nothing; a
\* rename of a name to itself does nothing
PathRename(p) ==
    /\ wpc[p] = "rename"
    /\ IF dentry[temp_path(p)] = 0
       THEN /\ wres' = [wres EXCEPT ![p] = "Io"]
            /\ wpc' = [wpc EXCEPT ![p] = "done"]
            /\ flock' = [flock EXCEPT ![wlock[p]] = 0]
            /\ wlock' = [wlock EXCEPT ![p] = 0]
            /\ UNCHANGED dentry
       ELSE /\ dentry' = IF temp_path(p) = wpath[p] THEN dentry
                      ELSE [dentry EXCEPT ![wpath[p]] = dentry[temp_path(p)],
                                       ![temp_path(p)] = 0]
            /\ wpc' = [wpc EXCEPT ![p] = "drop_lock"]
            /\ UNCHANGED <<wres, wlock, flock>>
    /\ UNCHANGED <<wpath, wtemp, ibytes, exceptPaths>>

\* drop(lock_file)
PathDropLock(p) ==
    /\ wpc[p] = "drop_lock"
    /\ flock' = [flock EXCEPT ![wlock[p]] = 0]
    /\ wlock' = [wlock EXCEPT ![p] = 0]
    /\ wpc' = [wpc EXCEPT ![p] = "remove_lock"]
    /\ UNCHANGED <<wpath, wres, wtemp, dentry, ibytes, exceptPaths>>

\* let _ = fs::remove_file(lock_path); Ok(())
PathRemoveLock(p) ==
    /\ wpc[p] = "remove_lock"
    /\ dentry' = [dentry EXCEPT ![lock_path(p)] = 0]
    /\ wres' = [wres EXCEPT ![p] = "Ok"]
    /\ wpc' = [wpc EXCEPT ![p] = "done"]
    /\ UNCHANGED <<wpath, wlock, wtemp, ibytes, flock, exceptPaths>>

NextPaths ==
    \E p \in Procs :
        \/ PathOpenLock(p) \/ PathTryLock(p) \/ PathOpenTemp(p) \/ PathWriteTemp(p)
        \/ PathRename(p) \/ PathDropLock(p) \/ PathRemoveLock(p)

SpecPaths == InitPaths /\ [][NextPaths]_vars

\* --------------------------------------------------------- PathLockManager
exceptScopes == <<yamlVars, pathVars, termVars>>

\* the task ids callers use
TaskIds == 1..NumTasks

\* Normalized absolute paths of existing files and directories, by their
\* components: <<"a", "b">> is /a/b.
Components == {"a", "b"}
ScopePaths == UNION {[1..n -> Components] : n \in 1..MaxDepth}

\* what expanding the patterns of one call can give: every set of up to
\* MaxPaths existing paths
PathSets == {S \in SUBSET ScopePaths : Cardinality(S) <= MaxPaths}

\* Path::starts_with: `base` is a prefix of `path`, component by component
starts_with(path, base) ==
    Len(base) <= Len(path) /\ SubSeq(path, 1, Len(base)) = base

\* an overlap check that knows equal paths only
has_overlapExact(paths1, paths2) ==
    {<<p1, p2>> \in paths1 \X paths2 : p1 = p2}

\* has_overlap: the pairs the loops can return (the order of iteration over a
\* HashSet is not fixed); the empty set stands for None
has_overlap(paths1, paths2) ==
    {<<p1, p2>> \in paths1 \X paths2 :
        p1 = p2 \/ starts_with(p1, p2) \/ starts_with(p2, p1)}

\* add_scope(task_id, patterns, allow_override), all_paths being what the
\* patterns expand to
AddScope(task_id, all_paths, allow_override) ==
    /\ IF /\ \E existing_id \in DOMAIN scopes :
                has_overlap(all_paths, scopes[existing_id].resolved_paths) # {}
          /\ ~allow_override
       THEN /\ scopeRet' = "Overlap"
            /\ UNCHANGED scopes
       ELSE /\ scopes' = [t \in DOMAIN scopes \cup {task_id} |->
                             IF t = task_id
                             THEN [id |-> task_id, resolved_paths |-> all_paths,
                                   locked |-> TRUE]
                             ELSE scopes[t]]
            /\ scopeRet' = "Ok"
    /\ UNCHANGED exceptScopes

\* remove_scope(task_id)
RemoveScope(task_id) ==
    /\ scopes' = [t \in DOMAIN scopes \ {task_id} |-> scopes[t]]
    /\ UNCHANGED <<scopeRet, exceptScopes>>

\* callers that never allow an override
NextScopes ==
    \E task_id \in TaskIds :
        \/ \E all_paths \in PathSets : AddScope(task_id, all_paths, FALSE)
        \/ RemoveScope(task_id)

SpecScopes == Init /\ [][NextScopes]_vars

\* ---------------------------------------------------------- ManagedProcess
exceptTerm == <<yamlVars, pathVars, scopeVars>>

\* the signals a process can catch or ignore (SIGKILL it cannot)
Catchable == {"SIGINT", "SIGTERM"}

\* ManagedProcess::spawn has returned: the child and the processes it started
\* run, each with its own signal dispositions; cancel_with_cascade is about
\* to be called
InitTerm ==
    /\ InitStore
    /\ tpc = "off" /\ ti = 0 /\ trev = 0 /\ tn = 0 /\ tdata = DefaultData
    /\ NoRetry
    /\ NoDisk
    /\ NoSupplied
    /\ NoPaths
    /\ NoScopes
    /\ cpc = "sigint"
    /\ sent = <<>>
    /\ waits = <<>>
    /\ cret = "None"
    /\ group = [m \in Members |-> "running"]
    /\ ignores \in [Members -> SUBSET Catchable]

\* a cascade that starts with the last resort
signal_atKillFirst(pos) ==
    CASE pos = "sigint" -> "SIGKILL"
      [] pos = "sigterm" -> "SIGTERM"
      [] pos = "sigkill" -> "SIGINT"

\* the signal of each killpg call of cancel_with_cascade
signal_at(pos) ==
    CASE pos = "sigint" -> "SIGINT"
      [] pos = "sigterm" -> "SIGTERM"
      [] pos = "sigkill" -> "SIGKILL"

\* the wait that follows each killpg call, and the killpg call that follows
\* each wait that has not seen the child exit
wait_after(pos) ==
    CASE pos = "sigint" -> "wait_int"
      [] pos = "sigterm" -> "wait_term"
      [] pos = "sigkill" -> "wait_kill"
escalation(pos) ==
    CASE pos = "wait_int" -> "sigterm"
      [] pos = "wait_term" -> "sigkill"

\* if let Err(e) = signal::killpg(pid, sig) { println!(..) }: the call is made
\* and its error, if any, is printed only.  A signal that arrives ends every
\* running member of the group that does not survive it.
Killpg(pos) ==
    /\ cpc = pos
    /\ \E ok \in BOOLEAN :
          /\ sent' = Append(sent, [sig |-> signal_at(pos), ok |-> ok])
          /\ group' = [m \in Members |->
                          IF ok /\ group[m] = "running"
                                /\ signal_at(pos) \notin ignores[m]
                          THEN "dying" ELSE group[m]]
    /\ cpc' = wait_after(pos)
    /\ UNCHANGED <<waits, cret, ignores, exceptTerm>>

\* timeout(.., self.child.wait()).await gives Ok(Ok(status)): the child has
\* exited and is reaped; the call returns Ok(())
WaitExit ==
    /\ cpc \in {"wait_int", "wait_term", "wait_kill"}
    /\ group[0] = "exited"
    /\ group' = [group EXCEPT ![0] = "reaped"]
    /\ waits' = Append(waits, "exit")
    /\ cret' = "Ok"
    /\ cpc' = "returned"
    /\ UNCHANGED <<sent, ignores, exceptTerm>>

\* ... gives Ok(Err(e)) or Err(_), a wait error or the timeout: the first two
\* waits go on to the next signal, the last returns the error
WaitFails ==
    /\ cpc \in {"wait_int", "wait_term", "wait_kill"}
    /\ \E outcome \in {"error", "timeout"} : waits' = Append(waits, outcome)
    /\ IF cpc = "wait_kill"
       THEN cret' = "Err" /\ cpc' = "returned"
       ELSE cret' = cret /\ cpc' = escalation(cpc)
    /\ UNCHANGED <<sent, group, ignores, exceptTerm>>

\* a process of the group ends, by a signal or by itself
Exits(m) ==
    /\ group[m] \in {"running", "dying"}
    /\ group' = [group EXCEPT ![m] = "exited"]
    /\ UNCHANGED <<cpc, sent, waits, cret, ignores, exceptTerm>>

NextTerm ==
    \/ Killpg("sigint") \/ Killpg("sigterm") \/ Killpg("sigkill")
    \/ WaitExit \/ WaitFails
    \/ \E m \in Members : Exits(m)

SpecTerm == InitTerm /\ [][NextTerm]_vars

\* ================================================================== claims
\* the statements of write between acquiring the lock and the rename
Critical == {"check", "read_open", "read_contents", "open_temp", "write_temp",
             "sync_temp", "sync_dir", "rename"}
InCritical(p) == op[p] = "write" /\ pc[p] \in Critical

\* thread p takes a step of its call / returns from write in this step
Steps(p) == pc'[p] # pc[p] \/ result'[p] # result[p]
WriteReturns(p) == op[p] = "write" /\ pc'[p] = "idle"
Renames(p) == pc[p] = "rename" /\ pc'[p] = "drop_lock"

\* the rev persisted at the target path (0: the default, nothing persisted)
PersistedRev == IF targetIno = 0 THEN 0 ELSE from_str(files[targetIno]).rev

\* C1: at most one writer is between the conflict check and the rename at any
\* time, whatever the interleaving of open lock file / try-lock / release /
\* delete lock file.
C1_MutualExclusion == Cardinality({p \in Procs : InCritical(p)}) <= 1

\* C2: a write called with expected_rev = Some(e) never renames over an
\* existing target whose persisted rev at the moment of the rename is not e.
C2_NoStaleOverwrite ==
    [][\A p \in Procs :
        (Renames(p) /\ expected_rev[p].some /\ TargetParses)
            => PersistedRev = expected_rev[p].val]_vars

\* C3: a write whose conflict check runs while the existing target's persisted
\* rev differs from the supplied expected_rev fails with Conflict{expected,
\* found}, expected the supplied value and found the persisted rev.
C3_StaleConflict ==
    [][\A p \in Procs :
        (op[p] = "write" /\ pc[p] = "read_contents" /\ Steps(p) /\ faults' = faults
         /\ TargetParses /\ PersistedRev # expected_rev[p].val)
            => result'[p] = ErrConflict(expected_rev[p].val, PersistedRev)]_vars

\* C4: a write call that returns an error has not changed what the target
\* path names.
C4_ErrorLeavesTarget ==
    \A p \in Procs :
        (pc[p] = "idle" /\ result[p].kind \in {"Locked", "Conflict", "Io", "Yaml"})
            => ~touched[p]

\* C5: when a write call returns (Ok or any error) and no other write is in
\* progress, the temp file does not exist.
C5_NoTempAfterReturn ==
    [][\A p \in Procs :
        (WriteReturns(p) /\ \A q \in Procs \ {p} : op[q] # "write")
            => tempIno' = 0]_vars

\* C6: a read racing writes returns a complete document that a write was
\* given, and the file it has opened does not change under it: never a
\* truncated document, never bytes written after it opened the file.
C6_ReadSeesWholeDocument ==
    [][\A p \in Procs :
        (op[p] = "read" /\ pc[p] = "read_contents" /\ faults' = faults)
            => IF pc'[p] = "read_contents"
               THEN files'[fd'[p]] = files[fd[p]]
               ELSE result'[p].kind = "Data" /\ result'[p].data \in Docs]_vars

\* C7: a successful write with a matching expected_rev = Some(e) leaves the
\* persisted rev at e + 1; no successful write lowers the persisted rev,
\* raises it by more than 1, or keeps it while changing the content.
C7_RevCounts ==
    [][\A p \in Procs :
        Renames(p) =>
            /\ expected_rev[p].some => PersistedRev' = expected_rev[p].val + 1
            /\ PersistedRev' >= PersistedRev
            /\ PersistedRev' <= PersistedRev + 1
            /\ PersistedRev' = PersistedRev => TargetBytes' = TargetBytes]_vars

\* C8: from a non-existent target, n sequential writes, the i-th with
\* expected_rev = Some(i - 1) and a document of rev i, all succeed (the i-th
\* leaves rev i persisted) and the final read returns rev n.
C8_RapidWrites ==
    /\ tpc # "failed"
    /\ (tpc = "write" /\ pc[1] = "idle") => (result[1] = Ok /\ PersistedRev = ti + 1)
    /\ tpc = "done" => (result[1].kind = "Data" /\ result[1].data.rev = tn)

\* the test has run all MaxWrites iterations and read rev MaxWrites back
C8_Witness ==
    /\ tpc = "done" /\ tn = MaxWrites /\ ti = tn
    /\ result[1] = OkData(TaskData(1, tn, <<tn - 1>>))

\* C9: a write whose lock attempt comes while another writer holds the
\* exclusive lock of the path returns Locked in that very step; the attempt
\* never waits (the step is always possible).
C9_LockedAtOnce ==
    [][\A p \in Procs :
        /\ pc[p] = "try_lock" => ENABLED TryLock(p)
        /\ (pc[p] = "try_lock" /\ Steps(p) /\ \E q \in Procs \ {p} : locked[q])
              => (pc'[p] = "idle" /\ result'[p] = ErrLocked)]_vars

\* C10: when a write returns Ok and no other write is in progress, neither the
\* temp file nor the lock file exists.
C10_CleanAfterSuccess ==
    [][\A p \in Procs :
        (pc[p] = "remove_lock" /\ pc'[p] = "idle"
         /\ \A q \in Procs \ {p} : op[q] # "write")
            => (tempIno' = 0 /\ lockIno' = 0)]_vars

\* C11: when the machine crashes right after a write has returned Ok, the
\* target path holds after the crash the document that write has written.
C11_DurableAfterOk ==
    [][(crashes' # crashes /\ pc[1] = "idle" /\ result[1] = Ok)
          => TargetBytes' = TargetBytes]_vars

\* C12: at whatever step its writers are interrupted, the target path holds
\* nothing (no document persisted yet) or a complete document that a write
\* was given, never a part of one.
C12_TargetWhole ==
    targetIno = 0 \/ \E d \in Docs : files[targetIno] = to_string(d)

\* every spawned thread has returned
AllJoined == spawned = NumCallers /\ \A p \in Procs : hpc[p] = "off"

\* C13: when all the retry-on-conflict callers have returned (no I/O error
\* having occurred), every one of them has succeeded and the persisted rev is
\* the starting rev plus the number of callers.
C13_AllSucceed ==
    (AllJoined /\ faults = 0)
        => /\ \A c \in Callers : joined[c] = Ok
           /\ PersistedRev = NumCallers

\* C14: no two retry-on-conflict callers have both succeeded with a write
\* made against the same expected rev.
C14_OneWinnerPerRev ==
    \A c, d \in Callers :
        (c # d /\ against[c] # -1 /\ against[d] # -1) => against[c] # against[d]

\* C15: a retry-on-conflict caller makes at most max_retries write attempts,
\* and once started it returns, whatever the other threads do.
C15_HelperTerminates ==
    \A p \in Procs :
        /\ [](attempt[p] <= max_retries)
        /\ (hpc[p] # "off") ~> (hpc[p] = "off")

\* a caller has used up its attempts and returned "Failed after retries"
C15_Witness ==
    \E p \in Procs : hpc[p] = "off" /\ attempt[p] = max_retries
                      /\ joined[caller[p]] = ErrRetries

\* C20: every write attempt of a retry-on-conflict caller comes right after a
\* read of that caller: the call that has last returned to it is its read for
\* this attempt, never a write that answered Conflict.
C20_AttemptAfterRead ==
    [][\A p \in Procs :
        (pc[p] = "idle" /\ pc'[p] = "open_lock" /\ hpc'[p] = "write")
            => hpc[p] = "read"]_vars

\* C16: a call that has returned holds no lock and no open file (the shared
\* lock of read and the exclusive lock of write go with their descriptors),
\* and a write is answered Locked only while another write is under way
\* between taking the lock and giving it up.
C16_NoLockAfterReturn ==
    [][\A p \in Procs :
        /\ pc'[p] = "idle" => (~locked'[p] /\ lock_file'[p] = 0 /\ fd'[p] = 0)
        /\ (pc[p] = "try_lock" /\ pc'[p] = "idle" /\ result'[p] = ErrLocked)
              => \E q \in Procs \ {p} :
                    op[q] = "write" /\ pc[q] \in Critical \cup {"drop_lock"}]_vars

\* a write has returned Conflict, which it finds out holding the lock, and
\* the other thread's write has taken the lock since
C16_Witness ==
    /\ pc[1] = "idle" /\ result[1].kind = "Conflict"
    /\ pc[2] = "check" /\ locked[2] /\ lock_file[2] = lockIno

\* C17: read of a path that does not exist returns the default document
\* (rev 0, no tasks) and leaves every file and directory entry as it is.
C17_ReadAbsent ==
    [][\A p \in Procs :
        (op[p] = "read" /\ pc[p] = "read_open" /\ targetIno = 0 /\ Steps(p))
            => /\ pc'[p] = "idle"
               /\ result'[p].kind = "Data"
               /\ result'[p].data.rev = 0 /\ result'[p].data.tasks = <<>>
               /\ fsVars' = fsVars]_vars

\* a read has returned the default and no file of the path exists
C17_Witness ==
    /\ pc[1] = "idle" /\ result[1] = OkData(TaskData(1, 0, <<>>))
    /\ targetIno = 0 /\ tempIno = 0 /\ lockIno = 0

\* C19: a writer at any statement from the conflict check to the rename
\* holds the exclusive lock on its open lock file; it gives the lock up only
\* at drop(lock_file), which follows the rename, or by returning, and the
\* lock file is deleted only by a writer that has given its lock up.
C19_LockHeldThroughout ==
    [][/\ \A p \in Procs :
            /\ (op'[p] = "write" /\ pc'[p] \in Critical)
                  => (locked'[p] /\ lock_file'[p] # 0)
            /\ (locked[p] /\ ~locked'[p]) => (pc[p] = "drop_lock" \/ pc'[p] = "idle")
       /\ (lockIno # 0 /\ lockIno' = 0)
            => \E p \in Procs : pc[p] = "remove_lock" /\ pc'[p] = "idle" /\ ~locked[p]]_vars

\* a writer has renamed and released the lock and is about to delete the
\* lock file
C19_Witness ==
    \E p \in Procs : /\ pc[p] = "remove_lock" /\ ~locked[p] /\ lock_file[p] = 0
                      /\ lockIno # 0 /\ targetIno # 0 /\ touched[p]

\* C18: a read that follows a successful write of a document, with no write
\* in between, returns that document (same version, rev and tasks) unless
\* the read itself meets an I/O error.
C18_RoundTrip ==
    (tpc = "trip_read" /\ pc[1] = "idle" /\ result[1] # ErrIo)
        => result[1] = OkData(tdata)

\* a document with tasks has been written and read back, on a path where a
\* call has met an I/O error before
C18_Witness ==
    /\ tpc = "trip_read" /\ pc[1] = "idle"
    /\ result[1] = OkData(TaskData(2, MaxRev, <<1>>))
    /\ faults > 0

\* C21: a retry-on-conflict caller whose write has returned Ok or an error
\* other than Conflict returns that result at once, with no further attempt.
C21_ReturnsAtOnce ==
    [][\A p \in Procs :
        (hpc[p] = "write" /\ pc[p] = "idle" /\ result[p].kind # "Conflict"
         /\ (hpc'[p] # hpc[p] \/ pc'[p] # pc[p]))
            => /\ hpc'[p] = "off" /\ pc'[p] = "idle"
               /\ attempt'[p] = attempt[p]
               /\ joined'[caller[p]] = result[p]]_vars

\* a caller has returned Locked after its first attempt
C21_Witness ==
    \E p \in Procs : hpc[p] = "off" /\ attempt[p] = 1
                      /\ joined[caller[p]] = ErrLocked

\* C22: a write called with expected_rev = None goes from the lock straight to
\* the temp file without reading the target, never returns Conflict, and its
\* rename puts what the temp path names in the place of the target, whatever
\* rev the target has.
C22_NoneSkipsCheck ==
    [][\A p \in Procs :
        (op[p] = "write" /\ ~expected_rev[p].some) =>
            /\ (pc[p] = "check" /\ pc'[p] # "check")
                   => (pc'[p] = "open_temp" /\ dataFs' = dataFs)
            /\ pc'[p] = "idle" => result'[p].kind # "Conflict"
            /\ Renames(p) => /\ targetIno' # 0
                             /\ files'[targetIno'] = files[tempIno]]_vars

\* writer 1, called with None, has put a rev 1 document in the place of a
\* target of rev MaxRev, which a reader that opened it before still has open
C22_Witness ==
    /\ pc[1] = "drop_lock" /\ ~expected_rev[1].some /\ touched[1]
    /\ TargetParses /\ PersistedRev = 1
    /\ op[2] = "read" /\ pc[2] = "read_contents" /\ fd[2] # targetIno
    /\ ParseOk(files[fd[2]]) /\ from_str(files[fd[2]]).rev = MaxRev

\* the statements of write between the conflict check and the rename
AfterCheck == {"open_temp", "write_temp", "sync_temp", "sync_dir", "rename"}

\* C23: a write that finds no target at its check goes on to the temp file
\* whatever its expected_rev is; from there it cannot return Conflict, nobody
\* but it creates the target, and its rename makes the target hold the
\* document it was called with.
C23_AbsentTargetNoConflict ==
    [][\A p \in Procs :
        /\ (op[p] = "write" /\ pc[p] = "check" /\ targetIno = 0 /\ pc'[p] # "check")
               => pc'[p] = "open_temp"
        /\ (op[p] = "write" /\ pc[p] \in AfterCheck /\ targetIno = 0)
               => /\ pc'[p] = "idle" => result'[p] = ErrIo
                  /\ targetIno' # 0
                        => /\ Renames(p)
                           /\ files'[targetIno'] = to_string(supplied[p])]_vars

\* thread 1, alone so far, called with Some(MaxRev) and a rev 1 document on
\* a path that named nothing, has renamed its document into place
C23_Witness ==
    /\ pc[1] = "drop_lock" /\ expected_rev[1] = Some(MaxRev) /\ touched[1]
    /\ supplied[1] = TaskData(1, 1, <<1>>)
    /\ files[targetIno] = to_string(supplied[1])
    /\ pc[2] = "idle" /\ result[2] = NoResult

C26_UnparsableIsAnError ==
    [][\A p \in Procs :
        (pc[p] = "read_contents" /\ ~ParseOk(files[fd[p]]) /\ pc'[p] # pc[p])
            => /\ pc'[p] = "idle"
               /\ result'[p] \in {ErrYaml, ErrIo}
               /\ TargetBytes' = TargetBytes
               /\ ~touched'[p]]_vars

\* a write (it reached the read, so it was called with Some) and a read have
\* both returned the parse error, and the target is still what it was
C26_Witness ==
    /\ pc[1] = "idle" /\ result[1] = ErrYaml /\ supplied[1] \in Docs
    /\ pc[2] = "idle" /\ result[2] = ErrYaml /\ supplied[2] = DefaultData
    /\ targetIno # 0 /\ files[targetIno] \in Garbled
    /\ ~touched[1] /\ ~touched[2]

\* C24: writers of different paths in one directory never use the same lock
\* file or the same temp file, no writer's lock or temp path is the target
\* path of a writer, and a writer is refused the lock only by a writer of
\* its own path.
C24_ArtifactsDedicated ==
    \A p, q \in Procs :
        /\ (wpath[p] # wpath[q] /\ wpc[p] # "open_lock" /\ wpc[q] # "open_lock")
               => /\ lock_path(p) # lock_path(q)
                  /\ temp_path(p) # temp_path(q)
        /\ wpc[p] # "open_lock"
               => /\ lock_path(p) # wpath[q]
                  /\ temp_path(p) # wpath[q]
        /\ wres[p] = "Locked"
               => \E r \in Procs \ {p} : wpath[r] = wpath[p]

\* path a is a proper ancestor of path b
IsAncestor(a, b) == Len(a) < Len(b) /\ \A k \in 1..Len(a) : a[k] = b[k]

\* some path of S equals, or is an ancestor or a descendant of, a path of T
Overlapping(S, T) ==
    \E a \in S, b \in T : a = b \/ IsAncestor(a, b) \/ IsAncestor(b, a)

\* C27: add_scope without override, called with paths that overlap a
\* registered scope, returns the Overlap error and leaves the scopes as they
\* are; and at all times no two registered scopes of different task ids
\* overlap.
C27_ScopesDisjoint ==
    /\ [](\A t, u \in DOMAIN scopes :
            t # u => ~Overlapping(scopes[t].resolved_paths,
                                  scopes[u].resolved_paths))
    /\ [][\A t \in TaskIds, S \in PathSets :
            (AddScope(t, S, FALSE)
             /\ \E u \in DOMAIN scopes : Overlapping(S, scopes[u].resolved_paths))
                => (scopeRet' = "Overlap" /\ scopes' = scopes)]_vars

\* with a directory and a file elsewhere registered for two tasks, an
\* add_scope has just been refused
C27_Witness ==
    /\ scopeRet = "Overlap"
    /\ Cardinality(DOMAIN scopes) = 2
    /\ \E t, u \in DOMAIN scopes :
          /\ scopes[t].resolved_paths = {<<"a">>}
          /\ scopes[u].resolved_paths = {<<"b", "a">>, <<"b", "b">>}

\* the order of the cascade
Cascade == <<"SIGINT", "SIGTERM", "SIGKILL">>

\* C28: the killpg calls are SIGINT, SIGTERM, SIGKILL in this order, each
\* after the first made only when the wait that followed the one before has
\* not seen the child exit; Ok is returned only when the last wait has seen
\* the child exit, an error only when the wait after SIGKILL has not; and
\* after the return no signal is sent.
C28_CascadeOrder ==
    /\ [](/\ Len(sent) <= Len(Cascade) /\ Len(waits) <= Len(sent)
          /\ \A k \in 1..Len(sent) :
                /\ sent[k].sig = Cascade[k]
                /\ k > 1 => (Len(waits) >= k - 1 /\ waits[k - 1] # "exit")
          /\ cret = "Ok" => /\ Len(waits) = Len(sent) /\ waits # <<>>
                            /\ waits[Len(waits)] = "exit"
                            /\ group[0] = "reaped"
          /\ cret = "Err" => /\ Len(sent) = Len(Cascade)
                             /\ Len(waits) = Len(Cascade)
                             /\ waits[Len(Cascade)] # "exit"
                             /\ group[0] # "reaped")
    /\ [][cret # "None" => (sent' = sent /\ cret' = cret)]_vars

\* a child that survives SIGINT has been seen to exit in the wait after
\* SIGTERM; the call has returned Ok after two signals
C28_Witness ==
    /\ cret = "Ok" /\ cpc = "returned"
    /\ "SIGINT" \in ignores[0] /\ "SIGTERM" \notin ignores[0]
    /\ sent = <<[sig |-> "SIGINT", ok |-> TRUE], [sig |-> "SIGTERM", ok |-> TRUE]>>
    /\ waits = <<"timeout", "exit">>

====
